---- MODULE Spec2Model ----
(***************************************************************************)
(* Live breath counter (src/app.py): a sensor thread pushes acceleration   *)
(* samples into four bounded deques (shimmer_handler) while Dash callback  *)
(* threads run compute passes over them (update_all_outputs ->             *)
(* detect_breaths -> log_alert) and render the alert list (update_alerts). *)
(*                                                                         *)
(* Time is scaled down so that the buffers stay small: the sampling rate   *)
(* is the rational SampleRateNum / SampleRateDen (48.72 Hz in the source), *)
(* the buffer spans BufferSeconds (120 s in the source) and the watchdog   *)
(* segment spans WatchdogSeconds (10 s in the source).  Every length the   *)
(* source derives from SAMPLE_RATE is derived here the same way, with      *)
(* Python's int() truncation.                                              *)
(*                                                                         *)
(* scipy's butter/filtfilt and the moving average are floating-point       *)
(* library code: their numerical result is abstracted to "any series of    *)
(* the input's length over SignalValues".  find_peaks is modelled after    *)
(* scipy.signal.find_peaks (plateau-aware local maxima, then the height    *)
(* condition, then the distance selection by priority).                    *)
(***************************************************************************)
EXTENDS Integers, Sequences, FiniteSets, TLC

VARIABLES
    data_buffer,            \* deque(maxlen=BUFFER_SIZE) of magnitudes
    x_data_buffer,          \* deque(maxlen=BUFFER_SIZE) of x readings
    y_data_buffer,          \* deque(maxlen=BUFFER_SIZE) of y readings
    z_data_buffer,          \* deque(maxlen=BUFFER_SIZE) of z readings
    hpc,                    \* position of the sensor thread inside shimmer_handler
    pkt,                    \* converted sample of the packet being handled
    pushed,                 \* history: every converted sample handed to shimmer_handler
    sliding_window_slider,  \* value the client holds for "sliding-window-slider"
    min_amplitude_slider,   \* value the client holds for "min-amplitude-slider"
    pass,                   \* per callback thread: the frame of update_all_outputs
    triggers,               \* number of update_all_outputs invocations so far
    alerts,                 \* the module-level list `alerts`
    alerts_csv,             \* the rows of alerts.csv (header left out)
    alerts_list,            \* what update_alerts last returned
    clock,                  \* datetime.now() at one-second resolution
    zero_peak_passes,       \* history: number of detect_breaths calls that found no recent peak
    detector                \* breath detection run on one filtered series by itself

vars == <<data_buffer, x_data_buffer, y_data_buffer, z_data_buffer, hpc, pkt, pushed,
          sliding_window_slider, min_amplitude_slider, pass, triggers,
          alerts, alerts_csv, alerts_list, clock, zero_peak_passes, detector>>

buffers == <<data_buffer, x_data_buffer, y_data_buffer, z_data_buffer>>

----------------------------------------------------------------------------
(* Bounds of the model *)

SampleRateNum == 3
SampleRateDen == 1
BufferSeconds == 2
WatchdogSeconds == 1
MaxWindowSeconds == 2
MaxSignal == 1
InitialWindowSeconds == 1
InitialAmplitude == 1
MaxPushesIngest == 7
MaxPushesSequential == 6
MaxTriggersSequential == 2
MaxSeriesLen == 7
MaxPolicySeriesLen == 6
MaxPolicyDistance == 2
MaxPushesConfig == 4
MaxTriggersConfig == 1
MaxPushesOverlap == 4
MaxTriggersOverlap == 1
MaxPushesConcurrent == 3
MaxTriggersConcurrent == 2
MaxClock == 1

(* Program constants *)

ALERTS_SHOWN == 10
SECONDS_PER_MINUTE == 60
ACCEL_SCALE_NUM == 981
ACCEL_SCALE_DEN == 16000

----------------------------------------------------------------------------
(* Python helpers *)

Min(a, b) == IF a <= b THEN a ELSE b
Max(a, b) == IF a >= b THEN a ELSE b
Abs(a) == IF a >= 0 THEN a ELSE -a

\* int(num / den) for den > 0: truncation toward zero
int(num, den) == IF num >= 0 THEN num \div den ELSE -((-num) \div den)

\* s[-n:] : for n > 0 the last n elements, for n = 0 the slice s[0:], i.e. all
\* of s, and for n < 0 the slice s[k:] with k = -n
SliceFromEnd(s, n) ==
    LET start == IF n > 0 THEN Max(Len(s) - n, 0) ELSE Min(-n, Len(s))
    IN  SubSeq(s, start + 1, Len(s))

RECURSIVE isqrt_between(_, _, _)
isqrt_between(n, lo, hi) ==
    IF lo >= hi THEN lo
    ELSE LET mid == (lo + hi + 1) \div 2
         IN  IF mid * mid <= n THEN isqrt_between(n, mid, hi)
                               ELSE isqrt_between(n, lo, mid - 1)

\* math.sqrt on the model's integer grid (hundredths of m/s^2), rounded down;
\* the search stops at 46340, whose square is the largest below 2^31
sqrt(n) == isqrt_between(n, 0, Min(n, 46340))

----------------------------------------------------------------------------
(* Parameters of src/app.py, lines 21-25 *)

\* len < SAMPLE_RATE
LessThanSampleRate(len) == len * SampleRateDen < SampleRateNum

\* int(seconds * SAMPLE_RATE)
SamplesIn(seconds) == int(seconds * SampleRateNum, SampleRateDen)

BUFFER_SIZE == SamplesIn(BufferSeconds)

\* int(1.5 * SAMPLE_RATE)
MIN_PEAK_DISTANCE == int(3 * SampleRateNum, 2 * SampleRateDen)

----------------------------------------------------------------------------
(* Input domains *)

\* raw LSM303DLHC readings of one packet
RawPackets == { <<16000, 0, 0>>, <<0, 16000, 32000>> }

\* values a callback request may carry for the two sliders; the sliders' min
\* and max are enforced by the browser only
WindowInputs == 0 .. MaxWindowSeconds
AmplitudeInputs == 1 .. (MaxSignal + 1)

\* values of the filtered, smoothed series
SignalValues == 0 .. MaxSignal

\* callback threads of the web server
PassIds == {"t1", "t2"}

NO_BREATH_MESSAGE == "Brak oddechu przez ostatnie 10 sekund!"

----------------------------------------------------------------------------
(* collections.deque(maxlen=BUFFER_SIZE) *)

\* a bounded buffer that rejects the new element when full
deque_append_reject(buf, v) ==
    IF Len(buf) >= BUFFER_SIZE THEN buf ELSE Append(buf, v)

\* deque.append on a bounded deque: when full, the element at the left end is
\* discarded
deque_append(buf, v) ==
    IF Len(buf) >= BUFFER_SIZE THEN Append(Tail(buf), v) ELSE Append(buf, v)

----------------------------------------------------------------------------
(* shimmer_handler, run by the sensor thread once per packet *)

\* raw * 9.81 / 16000, in hundredths of m/s^2
accel(raw) == int(raw * ACCEL_SCALE_NUM, ACCEL_SCALE_DEN)

\* the four values shimmer_handler computes from one packet
Sample(raw) ==
    LET ax == accel(raw[1])
        ay == accel(raw[2])
        az == accel(raw[3])
    IN  [magnitude |-> sqrt(ax * ax + ay * ay + az * az), x |-> ax, y |-> ay, z |-> az]

NoSample == [magnitude |-> 0, x |-> 0, y |-> 0, z |-> 0]

\* conversion of the packet and data_buffer.append
shimmer_handler_data(raw) ==
    /\ hpc = "idle"
    /\ pkt' = Sample(raw)
    /\ pushed' = Append(pushed, Sample(raw))
    /\ data_buffer' = deque_append(data_buffer, Sample(raw).magnitude)
    /\ hpc' = "append_x"
    /\ UNCHANGED <<detector, x_data_buffer, y_data_buffer, z_data_buffer,
                   sliding_window_slider, min_amplitude_slider, pass, triggers,
                   alerts, alerts_csv, alerts_list, clock, zero_peak_passes>>

shimmer_handler_x ==
    /\ hpc = "append_x"
    /\ x_data_buffer' = deque_append(x_data_buffer, pkt.x)
    /\ hpc' = "append_y"
    /\ UNCHANGED <<detector, data_buffer, y_data_buffer, z_data_buffer, pkt, pushed,
                   sliding_window_slider, min_amplitude_slider, pass, triggers,
                   alerts, alerts_csv, alerts_list, clock, zero_peak_passes>>

shimmer_handler_y ==
    /\ hpc = "append_y"
    /\ y_data_buffer' = deque_append(y_data_buffer, pkt.y)
    /\ hpc' = "append_z"
    /\ UNCHANGED <<detector, data_buffer, x_data_buffer, z_data_buffer, pkt, pushed,
                   sliding_window_slider, min_amplitude_slider, pass, triggers,
                   alerts, alerts_csv, alerts_list, clock, zero_peak_passes>>

shimmer_handler_z ==
    /\ hpc = "append_z"
    /\ z_data_buffer' = deque_append(z_data_buffer, pkt.z)
    /\ hpc' = "idle"
    /\ pkt' = NoSample
    /\ UNCHANGED <<detector, data_buffer, x_data_buffer, y_data_buffer, pushed,
                   sliding_window_slider, min_amplitude_slider, pass, triggers,
                   alerts, alerts_csv, alerts_list, clock, zero_peak_passes>>

\* number of appends each deque has received so far
AppendedData == Len(pushed)
AppendedX == Len(pushed) - (IF hpc \in {"append_x"} THEN 1 ELSE 0)
AppendedY == Len(pushed) - (IF hpc \in {"append_x", "append_y"} THEN 1 ELSE 0)
AppendedZ == Len(pushed) - (IF hpc \in {"append_x", "append_y", "append_z"} THEN 1 ELSE 0)

----------------------------------------------------------------------------
(* scipy.signal.find_peaks(x, distance=..., height=...) as detect_breaths calls it *)

\* local maxima: a sample (or the middle of a flat run of equal samples) whose
\* two neighbouring samples are strictly lower; the first and the last sample
\* are never maxima
local_maxima(x) ==
    { (ij[1] + ij[2]) \div 2 : ij \in
        { ij \in (1 .. Len(x)) \X (1 .. Len(x)) :
            /\ 2 <= ij[1] /\ ij[1] <= ij[2] /\ ij[2] <= Len(x) - 1
            /\ x[ij[1] - 1] < x[ij[1]]
            /\ x[ij[2] + 1] < x[ij[2]]
            /\ \A k \in ij[1] .. ij[2] : x[k] = x[ij[1]] } }

\* the peak handled next by the distance selection: the highest one, the
\* rightmost among equally high ones
highest(x, todo) ==
    CHOOSE j \in todo : \A k \in todo : x[k] < x[j] \/ (x[k] = x[j] /\ k <= j)

RECURSIVE select_by_peak_distance(_, _, _, _)
select_by_peak_distance(x, keep, todo, distance) ==
    IF todo = {} THEN keep
    ELSE LET j == highest(x, todo)
             dropped == { k \in keep : k # j /\ Abs(k - j) < distance }
         IN  select_by_peak_distance(x, keep \ dropped, (todo \ {j}) \ dropped, distance)

\* find_peaks called without distance=
find_peaks_unspaced(x, distance, height) ==
    { p \in local_maxima(x) : x[p] >= height }

find_peaks(x, distance, height) ==
    LET tall == { p \in local_maxima(x) : x[p] >= height }
    IN  select_by_peak_distance(x, tall, tall, distance)

----------------------------------------------------------------------------
(* detect_breaths and log_alert *)

\* bandpass_filter followed by the moving average: some series of the same
\* length as the input
bandpass_filter(data) == [1 .. Len(data) -> SignalValues]

\* the watchdog looking at the whole analysis window
recent_signal_whole(smoothed_signal) == smoothed_signal

\* smoothed_signal[-samples_in_10_seconds:]
recent_signal(smoothed_signal) == SliceFromEnd(smoothed_signal, SamplesIn(WatchdogSeconds))

\* an alert list that does not repeat the alert it ends with
log_alert_append_once(list, alert_entry) ==
    IF list # <<>> /\ list[Len(list)].message = alert_entry.message
      THEN list
      ELSE Append(list, alert_entry)

\* alerts.append(alert_entry)
log_alert_append(list, alert_entry) == Append(list, alert_entry)

\* writer.writerow(alert_entry) on the file opened in append mode
log_alert_writerow(rows, alert_entry) == Append(rows, alert_entry)

NoAlert == [timestamp |-> -1, message |-> ""]

----------------------------------------------------------------------------
(* update_all_outputs *)

\* list(buffer)[-buffer_size:] with buffer_size = int(window_size_seconds * SAMPLE_RATE)
snapshot(buffer, window_size_seconds) ==
    SliceFromEnd(buffer, SamplesIn(window_size_seconds))

\* the main detection demanding more than the threshold
main_height_strict(p) == pass[p].min_amplitude_change + 1

\* the height the main find_peaks call of a pass is given
main_height(p) == pass[p].min_amplitude_change

\* the watchdog reading the threshold the client holds now
watchdog_height_live(p) == min_amplitude_slider

\* the height the watchdog's find_peaks call of a pass is given
watchdog_height(p) == pass[p].min_amplitude_change

\* the divisor of the rate computation
rate_window(p) == pass[p].window_size_seconds

\* the frame of a thread that runs no callback; `output` is the kind of result
\* its last callback returned; `seen` records, for each of the four reads, how
\* many appends the deque had received when it was read
IdleFrame ==
    [pc |-> "idle", window_size_seconds |-> 0, min_amplitude_change |-> 0,
     data |-> <<>>, x_data |-> <<>>, y_data |-> <<>>, z_data |-> <<>>,
     seen |-> <<0, 0, 0, 0>>,
     filtered_signal |-> <<>>, breath_count |-> 0,
     alert_entry |-> NoAlert,
     breath_frequency |-> <<0, 1>>, output |-> "none"]

\* a callback that consumes the samples it reads, as a queue reader would
update_all_outputs_data_draining(p) ==
    /\ pass[p].pc = "idle"
    /\ triggers' = triggers + 1
    /\ pass' = [pass EXCEPT ![p] =
                  [IdleFrame EXCEPT
                     !.pc = "read_x",
                     !.window_size_seconds = sliding_window_slider,
                     !.min_amplitude_change = min_amplitude_slider,
                     !.data = snapshot(data_buffer, sliding_window_slider),
                     !.seen = <<AppendedData, 0, 0, 0>>]]
    /\ data_buffer' = <<>>
    /\ UNCHANGED <<detector, x_data_buffer, y_data_buffer, z_data_buffer, hpc, pkt, pushed,
                   sliding_window_slider, min_amplitude_slider,
                   alerts, alerts_csv, alerts_list, clock, zero_peak_passes>>

\* the callback is invoked with the sliders' current values and reads data_buffer
update_all_outputs_data(p) ==
    /\ pass[p].pc = "idle"
    /\ triggers' = triggers + 1
    /\ pass' = [pass EXCEPT ![p] =
                  [IdleFrame EXCEPT
                     !.pc = "read_x",
                     !.window_size_seconds = sliding_window_slider,
                     !.min_amplitude_change = min_amplitude_slider,
                     !.data = snapshot(data_buffer, sliding_window_slider),
                     !.seen = <<AppendedData, 0, 0, 0>>]]
    /\ UNCHANGED <<detector, buffers, hpc, pkt, pushed, sliding_window_slider, min_amplitude_slider,
                   alerts, alerts_csv, alerts_list, clock, zero_peak_passes>>

update_all_outputs_x(p) ==
    /\ pass[p].pc = "read_x"
    /\ pass' = [pass EXCEPT ![p].pc = "read_y",
                            ![p].x_data = snapshot(x_data_buffer, pass[p].window_size_seconds),
                            ![p].seen[2] = AppendedX]
    /\ UNCHANGED <<detector, buffers, hpc, pkt, pushed, sliding_window_slider, min_amplitude_slider,
                   triggers, alerts, alerts_csv, alerts_list, clock, zero_peak_passes>>

update_all_outputs_y(p) ==
    /\ pass[p].pc = "read_y"
    /\ pass' = [pass EXCEPT ![p].pc = "read_z",
                            ![p].y_data = snapshot(y_data_buffer, pass[p].window_size_seconds),
                            ![p].seen[3] = AppendedY]
    /\ UNCHANGED <<detector, buffers, hpc, pkt, pushed, sliding_window_slider, min_amplitude_slider,
                   triggers, alerts, alerts_csv, alerts_list, clock, zero_peak_passes>>

update_all_outputs_z(p) ==
    /\ pass[p].pc = "read_z"
    /\ pass' = [pass EXCEPT ![p].pc = "validate",
                            ![p].z_data = snapshot(z_data_buffer, pass[p].window_size_seconds),
                            ![p].seen[4] = AppendedZ]
    /\ UNCHANGED <<detector, buffers, hpc, pkt, pushed, sliding_window_slider, min_amplitude_slider,
                   triggers, alerts, alerts_csv, alerts_list, clock, zero_peak_passes>>

\* the buffers' size validation: any of the four shorter than one second
too_short(d, x, y, z) ==
    \/ LessThanSampleRate(Len(d))
    \/ LessThanSampleRate(Len(x))
    \/ LessThanSampleRate(Len(y))
    \/ LessThanSampleRate(Len(z))

\* what is left of the frame once the callback has returned or raised: its
\* two arguments, the kind of result and the two published numbers
Returned(frame, output) ==
    [IdleFrame EXCEPT !.window_size_seconds = frame.window_size_seconds,
                      !.min_amplitude_change = frame.min_amplitude_change,
                      !.breath_count = frame.breath_count,
                      !.breath_frequency = frame.breath_frequency,
                      !.output = output]

\* returns dash.no_update when any of the four is short, goes on to
\* detect_breaths otherwise
update_all_outputs_validate(p) ==
    /\ pass[p].pc = "validate"
    /\ IF too_short(pass[p].data, pass[p].x_data, pass[p].y_data, pass[p].z_data)
         THEN pass' = [pass EXCEPT ![p] = Returned(pass[p], "no_update")]
         ELSE pass' = [pass EXCEPT ![p].pc = "detect"]
    /\ UNCHANGED <<detector, buffers, hpc, pkt, pushed, sliding_window_slider, min_amplitude_slider,
                   triggers, alerts, alerts_csv, alerts_list, clock, zero_peak_passes>>

\* the frame once detect_breaths has its two results; the four snapshots are
\* not read again
Detected(frame, smoothed_signal, breath_count) ==
    [IdleFrame EXCEPT !.pc = "rate",
                      !.window_size_seconds = frame.window_size_seconds,
                      !.min_amplitude_change = frame.min_amplitude_change,
                      !.filtered_signal = smoothed_signal,
                      !.breath_count = breath_count]

\* detect_breaths up to and including alerts.append of log_alert
detect_breaths(p) ==
    /\ pass[p].pc = "detect"
    /\ \E smoothed_signal \in bandpass_filter(pass[p].data) :
         LET peaks == find_peaks(smoothed_signal, MIN_PEAK_DISTANCE, main_height(p))
             recent_peaks == find_peaks(recent_signal(smoothed_signal),
                                        MIN_PEAK_DISTANCE, watchdog_height(p))
             alert_entry == [timestamp |-> clock, message |-> NO_BREATH_MESSAGE]
         IN  IF Cardinality(recent_peaks) = 0
               THEN /\ alerts' = log_alert_append(alerts, alert_entry)
                    /\ zero_peak_passes' = zero_peak_passes + 1
                    /\ pass' = [pass EXCEPT ![p] =
                                  [Detected(pass[p], smoothed_signal, Cardinality(peaks))
                                     EXCEPT !.pc = "log_write", !.alert_entry = alert_entry]]
               ELSE /\ alerts' = alerts
                    /\ zero_peak_passes' = zero_peak_passes
                    /\ pass' = [pass EXCEPT ![p] =
                                  Detected(pass[p], smoothed_signal, Cardinality(peaks))]
    /\ UNCHANGED <<detector, buffers, hpc, pkt, pushed, sliding_window_slider, min_amplitude_slider,
                   triggers, alerts_csv, alerts_list, clock>>

\* the rest of log_alert: the row is appended to alerts.csv
log_alert_write(p) ==
    /\ pass[p].pc = "log_write"
    /\ alerts_csv' = log_alert_writerow(alerts_csv, pass[p].alert_entry)
    /\ pass' = [pass EXCEPT ![p].pc = "rate"]
    /\ UNCHANGED <<detector, buffers, hpc, pkt, pushed, sliding_window_slider, min_amplitude_slider,
                   triggers, alerts, alerts_list, clock, zero_peak_passes>>

\* breath_frequency = (breath_count / window_size_seconds) * 60, kept as the
\* fraction <<numerator, denominator>>, and the return of the figure and the
\* two texts; the division raises ZeroDivisionError for window_size_seconds = 0
\* and the callback then returns nothing
update_all_outputs_publish(p) ==
    /\ pass[p].pc = "rate"
    /\ IF rate_window(p) = 0
         THEN pass' = [pass EXCEPT ![p] = Returned(pass[p], "error")]
         ELSE pass' = [pass EXCEPT ![p] =
                         Returned([pass[p] EXCEPT !.breath_frequency =
                                      <<pass[p].breath_count * SECONDS_PER_MINUTE,
                                        rate_window(p)>>],
                                  "published")]
    /\ UNCHANGED <<detector, buffers, hpc, pkt, pushed, sliding_window_slider, min_amplitude_slider,
                   triggers, alerts, alerts_csv, alerts_list, clock, zero_peak_passes>>

----------------------------------------------------------------------------
(* update_alerts, the sliders and the clock *)

\* alerts[-10:]
update_alerts ==
    /\ alerts_list' = SliceFromEnd(alerts, ALERTS_SHOWN)
    /\ alerts_list' # alerts_list
    /\ UNCHANGED <<detector, buffers, hpc, pkt, pushed, sliding_window_slider, min_amplitude_slider,
                   pass, triggers, alerts, alerts_csv, clock, zero_peak_passes>>

set_sliding_window(w) ==
    /\ w # sliding_window_slider
    /\ sliding_window_slider' = w
    /\ UNCHANGED <<detector, buffers, hpc, pkt, pushed, min_amplitude_slider,
                   pass, triggers, alerts, alerts_csv, alerts_list, clock, zero_peak_passes>>

set_min_amplitude(a) ==
    /\ a # min_amplitude_slider
    /\ min_amplitude_slider' = a
    /\ UNCHANGED <<detector, buffers, hpc, pkt, pushed, sliding_window_slider,
                   pass, triggers, alerts, alerts_csv, alerts_list, clock, zero_peak_passes>>

Tick ==
    /\ clock' = clock + 1
    /\ UNCHANGED <<detector, buffers, hpc, pkt, pushed, sliding_window_slider, min_amplitude_slider,
                   pass, triggers, alerts, alerts_csv, alerts_list, zero_peak_passes>>

----------------------------------------------------------------------------
(* detect_breaths' peak count applied to a series by itself *)

\* every series of at most maxlen values
Series(values, maxlen) == UNION { [1 .. n -> values] : n \in 0 .. maxlen }

\* the detector before it is given a series
IdleDetector ==
    [pc |-> "idle", filtered |-> <<>>, min_peak_distance_samples |-> 0,
     min_amplitude_change |-> 0, height_gated |-> FALSE,
     peaks |-> {}, valleys |-> {}, breath_count |-> 0,
     min_count |-> 0, paired_count |-> 0]

\* the detector given a smoothed series and a threshold
ReadyDetector(smoothed_signal, min_amplitude_change) ==
    [IdleDetector EXCEPT !.pc = "ready",
                         !.filtered = smoothed_signal,
                         !.min_amplitude_change = min_amplitude_change]

\* the main find_peaks call of detect_breaths and the len(peaks) it returns
count_peaks ==
    /\ detector.pc = "ready"
    /\ LET peaks == find_peaks(detector.filtered, MIN_PEAK_DISTANCE,
                               detector.min_amplitude_change)
       IN  detector' = [detector EXCEPT !.pc = "counted",
                                        !.peaks = peaks,
                                        !.breath_count = Cardinality(peaks)]
    /\ UNCHANGED <<buffers, hpc, pkt, pushed, sliding_window_slider, min_amplitude_slider,
                   pass, triggers, alerts, alerts_csv, alerts_list, clock, zero_peak_passes>>

----------------------------------------------------------------------------
(* BreathDetector.detect with its two counting policies, which src/app.py  *)
(* does not hold: modelled from section 4.3 of the specification            *)

\* values of a zero-centred filtered series (below, at and above zero), and
\* the distances detect is given
PolicyValues == {-1, 0, 1}
DistanceInputs == 1 .. MaxPolicyDistance

negated(x) == [i \in 1 .. Len(x) |-> 0 - x[i]]

\* local maxima no two of which are closer than the distance
extrema(x, distance) ==
    select_by_peak_distance(x, local_maxima(x), local_maxima(x), distance)

\* peaks and valleys of a series: local maxima and minima subject to the
\* distance and, in a height-gated variant, peak value >= min_amplitude_change
\* and valley value <= -min_amplitude_change
locate_peaks(x, distance, min_amplitude_change, height_gated) ==
    IF height_gated THEN find_peaks(x, distance, min_amplitude_change)
                    ELSE extrema(x, distance)

locate_valleys(x, distance, min_amplitude_change, height_gated) ==
    IF height_gated THEN find_peaks(negated(x), distance, min_amplitude_change)
                    ELSE extrema(negated(x), distance)

\* the positions of a set in detection order
in_order(S) ==
    [i \in 1 .. Cardinality(S) |->
        CHOOSE e \in S : Cardinality({ f \in S : f < e }) = i - 1]

\* breath_count = min(#peaks, #valleys)
min_count_policy(peaks, valleys) == Min(Cardinality(peaks), Cardinality(valleys))

\* every valley-then-peak combination counted, not only the paired ones
paired_amplitude_policy_all_pairs(x, peaks, valleys, min_amplitude_change) ==
    Cardinality({ pv \in peaks \X valleys :
                    /\ pv[2] < pv[1]
                    /\ x[pv[1]] - x[pv[2]] >= min_amplitude_change })

\* peaks and valleys paired by detection order; a pair counts when its valley
\* precedes its peak and peak value - valley value >= min_amplitude_change;
\* what has no partner is dropped
paired_amplitude_policy(x, peaks, valleys, min_amplitude_change) ==
    LET ps == in_order(peaks)
        vs == in_order(valleys)
    IN  Cardinality({ i \in 1 .. Min(Len(ps), Len(vs)) :
                        /\ vs[i] < ps[i]
                        /\ x[ps[i]] - x[vs[i]] >= min_amplitude_change })

\* the detector given a filtered series and detect's parameters
ReadyPolicies(filtered, distance, min_amplitude_change, height_gated) ==
    [IdleDetector EXCEPT !.pc = "ready",
                         !.filtered = filtered,
                         !.min_peak_distance_samples = distance,
                         !.min_amplitude_change = min_amplitude_change,
                         !.height_gated = height_gated]

\* detect(filtered, min_peak_distance_samples, min_amplitude_change) with the
\* count of either policy
detect ==
    /\ detector.pc = "ready"
    /\ LET peaks == locate_peaks(detector.filtered, detector.min_peak_distance_samples,
                                 detector.min_amplitude_change, detector.height_gated)
           valleys == locate_valleys(detector.filtered, detector.min_peak_distance_samples,
                                     detector.min_amplitude_change, detector.height_gated)
       IN  detector' = [detector EXCEPT
                          !.pc = "detected",
                          !.peaks = peaks,
                          !.valleys = valleys,
                          !.min_count = min_count_policy(peaks, valleys),
                          !.paired_count =
                              paired_amplitude_policy(detector.filtered, peaks, valleys,
                                                      detector.min_amplitude_change)]
    /\ UNCHANGED <<buffers, hpc, pkt, pushed, sliding_window_slider, min_amplitude_slider,
                   pass, triggers, alerts, alerts_csv, alerts_list, clock, zero_peak_passes>>

----------------------------------------------------------------------------
(* The program *)

InitProgram ==
    /\ data_buffer = <<>>
    /\ x_data_buffer = <<>>
    /\ y_data_buffer = <<>>
    /\ z_data_buffer = <<>>
    /\ hpc = "idle"
    /\ pkt = NoSample
    /\ pushed = <<>>
    /\ sliding_window_slider = InitialWindowSeconds
    /\ min_amplitude_slider = InitialAmplitude
    /\ pass = [p \in PassIds |-> IdleFrame]
    /\ triggers = 0
    /\ alerts = <<>>
    /\ alerts_csv = <<>>
    /\ alerts_list = <<>>
    /\ clock = 0
    /\ zero_peak_passes = 0

Init ==
    /\ InitProgram
    /\ detector = IdleDetector

\* the steps of a callback thread after it has been invoked
PassStep(p) ==
    \/ update_all_outputs_x(p)
    \/ update_all_outputs_y(p)
    \/ update_all_outputs_z(p)
    \/ update_all_outputs_validate(p)
    \/ detect_breaths(p)
    \/ log_alert_write(p)
    \/ update_all_outputs_publish(p)

\* Ingestion: the sensor thread alone, delivering packets of both kinds until
\* the deques overflow
NextIngest ==
    \/ Len(pushed) < MaxPushesIngest /\ \E raw \in RawPackets : shimmer_handler_data(raw)
    \/ shimmer_handler_x
    \/ shimmer_handler_y
    \/ shimmer_handler_z

SpecIngest == Init /\ [][NextIngest]_vars

\* the one kind of packet delivered where the samples' values do not matter
SteadyPacket == <<16000, 0, 0>>

\* no callback is running
AllIdle == \A p \in PassIds : pass[p].pc = "idle"

\* Taking turns: packets are handled, the sliders moved and passes run one
\* after the other, none while another is under way
NextSequential ==
    \/ AllIdle /\ Len(pushed) < MaxPushesSequential /\ shimmer_handler_data(SteadyPacket)
    \/ shimmer_handler_x
    \/ shimmer_handler_y
    \/ shimmer_handler_z
    \/ hpc = "idle" /\ triggers < MaxTriggersSequential /\ update_all_outputs_data("t1")
    \/ PassStep("t1")
    \/ AllIdle /\ hpc = "idle" /\ \E w \in WindowInputs : set_sliding_window(w)
    \/ AllIdle /\ hpc = "idle" /\ \E a \in AmplitudeInputs : set_min_amplitude(a)

SpecSequential == Init /\ [][NextSequential]_vars

\* Moving sliders: the sliders are moved at any time, also while a pass runs
\* over the samples handled before it
NextConfig ==
    \/ AllIdle /\ Len(pushed) < MaxPushesConfig /\ shimmer_handler_data(SteadyPacket)
    \/ shimmer_handler_x
    \/ shimmer_handler_y
    \/ shimmer_handler_z
    \/ hpc = "idle" /\ triggers < MaxTriggersConfig /\ update_all_outputs_data("t1")
    \/ PassStep("t1")
    \/ \E w \in WindowInputs : set_sliding_window(w)
    \/ \E a \in AmplitudeInputs : set_min_amplitude(a)

SpecConfig == Init /\ [][NextConfig]_vars

\* Overlap: packets are handled at any time, also while a pass runs; the
\* window slider is moved between passes
NextOverlap ==
    \/ Len(pushed) < MaxPushesOverlap /\ shimmer_handler_data(SteadyPacket)
    \/ shimmer_handler_x
    \/ shimmer_handler_y
    \/ shimmer_handler_z
    \/ triggers < MaxTriggersOverlap /\ update_all_outputs_data("t1")
    \/ PassStep("t1")
    \/ AllIdle /\ \E w \in WindowInputs : set_sliding_window(w)

SpecOverlap == Init /\ [][NextOverlap]_vars

\* Concurrent callbacks: two callback threads run passes at the same time
\* over a few samples while the clock advances
NextConcurrent ==
    \/ Len(pushed) < MaxPushesConcurrent /\ shimmer_handler_data(SteadyPacket)
    \/ shimmer_handler_x
    \/ shimmer_handler_y
    \/ shimmer_handler_z
    \/ \E p \in PassIds :
          \/ triggers < MaxTriggersConcurrent /\ update_all_outputs_data(p)
          \/ PassStep(p)
    \/ update_alerts
    \/ clock < MaxClock /\ Tick

SpecConcurrent == Init /\ [][NextConcurrent]_vars

\* Peak counting by itself: detect_breaths' main detection applied to every
\* smoothed series of at most MaxSeriesLen samples, under every threshold
InitPeaks ==
    /\ InitProgram
    /\ detector \in { ReadyDetector(x, a) :
                        x \in Series(SignalValues, MaxSeriesLen), a \in AmplitudeInputs }

NextPeaks == count_peaks

SpecPeaks == InitPeaks /\ [][NextPeaks]_vars

\* The counting policies by themselves: detect applied to every zero-centred
\* series of at most MaxPolicySeriesLen samples, under every distance and
\* threshold, height-gated or not
InitPolicies ==
    /\ InitProgram
    /\ detector \in { ReadyPolicies(x, d, a, g) :
                        x \in Series(PolicyValues, MaxPolicySeriesLen),
                        d \in DistanceInputs, a \in AmplitudeInputs, g \in BOOLEAN }

NextPolicies == detect

SpecPolicies == InitPolicies /\ [][NextPolicies]_vars

----------------------------------------------------------------------------
(* Properties *)

\* the last n elements of s, all of s when it has fewer
LastOf(s, n) == SubSeq(s, Len(s) - Min(n, Len(s)) + 1, Len(s))

\* the first n values pushed to a channel, and what a FIFO buffer of capacity
\* BUFFER_SIZE holds after them
ChannelHistory(ch, n) == [i \in 1 .. n |-> pushed[i][ch]]
FifoAfter(ch, n) == LastOf(ChannelHistory(ch, n), BUFFER_SIZE)

\* C1: each sample buffer holds exactly the last BUFFER_SIZE values pushed to
\* it, in push order (so the value evicted is always the oldest), and never
\* more than BUFFER_SIZE values
C1_FifoEviction ==
    /\ data_buffer = FifoAfter("magnitude", AppendedData)
    /\ x_data_buffer = FifoAfter("x", AppendedX)
    /\ y_data_buffer = FifoAfter("y", AppendedY)
    /\ z_data_buffer = FifoAfter("z", AppendedZ)
    /\ \A i \in 1 .. 4 : Len(buffers[i]) <= BUFFER_SIZE

\* more packets than the capacity have been handled, the first of them unlike
\* the one that took its place
C1_Witness ==
    /\ hpc = "idle"
    /\ Len(pushed) > BUFFER_SIZE
    /\ Len(data_buffer) = BUFFER_SIZE
    /\ pushed[1] # pushed[Len(pushed) - BUFFER_SIZE + 1]

\* C2: the four sequences a pass has read have equal length and were read at
\* the same number of handled samples, so that position i of each comes from
\* the same sample
C2_NoTornRead ==
    \A p \in PassIds :
        pass[p].pc \in {"validate", "detect"} =>
            /\ Len(pass[p].x_data) = Len(pass[p].data)
            /\ Len(pass[p].y_data) = Len(pass[p].data)
            /\ Len(pass[p].z_data) = Len(pass[p].data)
            /\ \A i \in 2 .. 4 : pass[p].seen[i] = pass[p].seen[1]

\* C3: the data a pass has read is the last min(window_len, size) samples of
\* data_buffer as it was when read, window_len being
\* int(window_size_seconds * SAMPLE_RATE)
C3_SnapshotIsLastMin ==
    \A p \in PassIds :
        pass[p].pc \in {"read_x", "read_y", "read_z", "validate", "detect"} =>
            LET held == FifoAfter("magnitude", pass[p].seen[1])
                window_len == SamplesIn(pass[p].window_size_seconds)
            IN  /\ pass[p].data = LastOf(held, Min(window_len, Len(held)))
                /\ Len(pass[p].data) <= window_len
                /\ Len(pass[p].data) <= Len(held)

\* the snapshot a running pass works on holds less than one second of data:
\* one of the four sequences read, or the series filtered from them, has fewer
\* than SAMPLE_RATE samples
HoldsLessThanOneSecond(frame) ==
    IF frame.pc \in {"log_write", "rate"}
      THEN Len(frame.filtered_signal) * SampleRateDen < SampleRateNum
      ELSE \E s \in {frame.data, frame.x_data, frame.y_data, frame.z_data} :
              Len(s) * SampleRateDen < SampleRateNum

\* C4: a pass whose snapshot holds less than one second of data returns
\* without publishing and without having emitted an alert, and a pass whose
\* snapshot holds at least one second of data returns its results
C4_SkipOrPublish ==
    [][\A p \in PassIds :
          (pass[p].pc # "idle" /\ pass'[p].pc = "idle") =>
              IF HoldsLessThanOneSecond(pass[p])
                THEN /\ pass'[p].output = "no_update"
                     /\ pass[p].alert_entry = NoAlert
                     /\ alerts' = alerts
                ELSE pass'[p].output = "published"]_vars

\* the trailing segment of a filtered series: its last
\* int(WatchdogSeconds * SAMPLE_RATE) samples
Trailing(series) == LastOf(series, SamplesIn(WatchdogSeconds))

\* some sample, or flat run of samples, of the series is not lower than the
\* height and has a strictly lower sample on either side
QualifyingPeak(series, height) ==
    \E i \in 2 .. Len(series) - 1 : \E j \in i .. Len(series) - 1 :
        /\ \A k \in i .. j : series[k] = series[i]
        /\ series[i] >= height
        /\ series[i - 1] < series[i]
        /\ series[j + 1] < series[i]

Flat(series) == \A i \in 1 .. Len(series) : series[i] = series[1]

Alerted(frame) == frame.alert_entry # NoAlert

\* C5: a pass that has run detection has emitted an alert exactly when the
\* trailing segment of its filtered series has no qualifying peak; in
\* particular it has when that segment is flat
C5_WatchdogIffNoRecentPeak ==
    \A p \in PassIds :
        pass[p].pc \in {"log_write", "rate"} =>
            /\ Alerted(pass[p]) <=>
                  ~QualifyingPeak(Trailing(pass[p].filtered_signal),
                                  pass[p].min_amplitude_change)
            /\ Flat(Trailing(pass[p].filtered_signal)) => Alerted(pass[p])

\* a pass over a window longer than the trailing segment counted a breath and
\* alerted all the same
C5_Witness ==
    \E p \in PassIds :
        /\ pass[p].pc = "log_write"
        /\ Len(pass[p].filtered_signal) > SamplesIn(WatchdogSeconds)
        /\ pass[p].breath_count > 0

\* C6: the alert list has one entry per pass that found no recent peak, and
\* alerts.csv one row per such pass that has finished log_alert
C6_OneAlertPerZeroPeakPass ==
    /\ Len(alerts) = zero_peak_passes
    /\ Len(alerts_csv) + Cardinality({p \in PassIds : pass[p].pc = "log_write"}) = Len(alerts)

\* two passes in a row found no recent peak and each left the same alert
C6_Witness ==
    /\ Len(alerts) = 2
    /\ alerts[1] = alerts[2]
    /\ Len(alerts_csv) = 2
    /\ \A p \in PassIds : pass[p].pc = "idle"

\* C7: alerts.csv never holds more rows than alerts were raised and, once no
\* write is pending, holds the alerts in the order of the alert list
C7_LogInAlertOrder ==
    /\ Len(alerts_csv) <= Len(alerts)
    /\ (\A p \in PassIds : pass[p].pc # "log_write") => alerts_csv = alerts

\* C8: whatever a pass has computed so far was computed from the two values
\* it was invoked with: the snapshots from its window, the breath count and
\* the alert from its threshold, the rate from its window
C8_OneConfigPerPass ==
    \A p \in PassIds :
        LET frame == pass[p]
            window_len == SamplesIn(frame.window_size_seconds)
        IN  /\ frame.pc \in {"read_x", "read_y", "read_z", "validate", "detect"} =>
                  frame.data = SliceFromEnd(FifoAfter("magnitude", frame.seen[1]), window_len)
            /\ frame.pc \in {"read_y", "read_z", "validate", "detect"} =>
                  frame.x_data = SliceFromEnd(FifoAfter("x", frame.seen[2]), window_len)
            /\ frame.pc \in {"read_z", "validate", "detect"} =>
                  frame.y_data = SliceFromEnd(FifoAfter("y", frame.seen[3]), window_len)
            /\ frame.pc \in {"validate", "detect"} =>
                  frame.z_data = SliceFromEnd(FifoAfter("z", frame.seen[4]), window_len)
            /\ frame.pc \in {"log_write", "rate"} =>
                  /\ frame.breath_count =
                        Cardinality(find_peaks(frame.filtered_signal, MIN_PEAK_DISTANCE,
                                               frame.min_amplitude_change))
                  /\ Alerted(frame) <=>
                        ~QualifyingPeak(Trailing(frame.filtered_signal),
                                        frame.min_amplitude_change)
            /\ (frame.pc = "idle" /\ frame.output = "published") =>
                  frame.breath_frequency =
                      <<frame.breath_count * SECONDS_PER_MINUTE, frame.window_size_seconds>>

\* both sliders were moved while a pass was running, and the pass counted a
\* breath that the new threshold would not have let it count
C8_Witness ==
    \E p \in PassIds :
        /\ pass[p].pc = "rate"
        /\ pass[p].min_amplitude_change < min_amplitude_slider
        /\ pass[p].window_size_seconds # sliding_window_slider
        /\ pass[p].breath_count > 0
        /\ ~Alerted(pass[p])
        /\ find_peaks(pass[p].filtered_signal, MIN_PEAK_DISTANCE, min_amplitude_slider) = {}

\* C9: no pass runs with a window_size_seconds that is not positive
C9_WindowPositive ==
    \A p \in PassIds : pass[p].pc # "idle" => pass[p].window_size_seconds > 0

\* C10: no step of a pass changes any of the four sample buffers
C10_PassLeavesBuffers ==
    [][pass' # pass => buffers' = buffers]_vars

\* a pass has raised, the deques holding every sample handled before and
\* while it ran
C10_Witness ==
    \E p \in PassIds :
        /\ pass[p].pc = "idle"
        /\ pass[p].output = "error"
        /\ hpc = "idle"
        /\ Len(pushed) = MaxPushesOverlap
        /\ data_buffer = ChannelHistory("magnitude", Len(pushed))
        /\ z_data_buffer = ChannelHistory("z", Len(pushed))

\* C13: a pass that publishes a breath count of 0 has emitted a no-breath
\* alert, which the alert list holds
C13_ZeroCountAlerts ==
    [][\A p \in PassIds :
          (/\ pass[p].pc = "rate"
           /\ pass'[p].pc = "idle"
           /\ pass'[p].output = "published"
           /\ pass'[p].breath_count = 0) =>
              /\ Alerted(pass[p])
              /\ \E i \in 1 .. Len(alerts) : alerts[i] = pass[p].alert_entry]_vars

\* a pass has published a breath count of 0 and its alert is in the list and
\* in alerts.csv
C13_Witness ==
    \E p \in PassIds :
        /\ pass[p].pc = "idle"
        /\ pass[p].output = "published"
        /\ pass[p].breath_count = 0
        /\ Len(alerts) = 1
        /\ Len(alerts_csv) = 1

\* C12: the peaks counted as breaths are positions of the series, no two of
\* them closer than MIN_PEAK_DISTANCE samples and each with a value of at
\* least min_amplitude_change, and breath_count is their number, never
\* negative
C12_CountedPeaksSpacedAndTall ==
    detector.pc = "counted" =>
        /\ detector.peaks \subseteq 1 .. Len(detector.filtered)
        /\ \A a \in detector.peaks : \A b \in detector.peaks :
              a # b => Abs(a - b) >= MIN_PEAK_DISTANCE
        /\ \A a \in detector.peaks :
              detector.filtered[a] >= detector.min_amplitude_change
        /\ detector.breath_count = Cardinality(detector.peaks)
        /\ detector.breath_count >= 0

\* two breaths were counted in a series with three local maxima, the one in
\* between being too close to the others
C12_Witness ==
    /\ detector.pc = "counted"
    /\ detector.breath_count = 2
    /\ Cardinality(local_maxima(detector.filtered)) = 3

\* C11 as claimed: the count of the min-count policy is at most the count of
\* the paired-amplitude policy for the same series
C11_MinCountAtMostPaired ==
    detector.pc = "detected" => detector.min_count <= detector.paired_count

\* C11 as amended: the count of the paired-amplitude policy is at most the
\* count of the min-count policy for the same series
C11_PairedAtMostMinCount ==
    detector.pc = "detected" => detector.paired_count <= detector.min_count

\* a series with two peaks and two valleys, only one of its two
\* valley-then-peak pairs being of sufficient amplitude
C11_Witness ==
    /\ detector.pc = "detected"
    /\ detector.min_count = 2
    /\ detector.paired_count = 1

====
